---- MODULE Spec2Model ----
(***************************************************************************)
(* Bakery ordering backend (src/main.py): the menu catalog, the order      *)
(* store, order placement with price snapshots, status transitions and     *)
(* the analytics aggregation.                                              *)
(*                                                                         *)
(* Modelling conventions                                                   *)
(*  - An ObjectId is a natural number.  Its string forms are pairs:        *)
(*    <<"hex", n>> is the canonical lowercase 24-digit hex string that     *)
(*    str(ObjectId) produces, <<"HEX", n>> is the same digits in upper     *)
(*    case (accepted by ObjectId(), equal to no str(ObjectId)), and        *)
(*    <<"bad", n>> is a string ObjectId() rejects.                         *)
(*  - Money is an integer number of mils (1/1000 of a currency unit).      *)
(*    The prices used are dyadic (3.5, 2.0, 0.125), so the float           *)
(*    products and sums of place_order are exact and round(x, 2) is        *)
(*    round-half-even on the decimal value.                                *)
(*  - Time is a count of clock ticks; strftime('%Y%m%d%H%M%S') keeps the   *)
(*    second, $dateToString '%Y-%m-%d' keeps the day.                      *)
(*  - The handlers assume a configured database (db is not None).          *)
(***************************************************************************)
EXTENDS Integers, Sequences, FiniteSets, TLC

VARIABLES
    items,      \* collection "bakeryitem": ObjectId -> document
    orders,     \* collection "order": sequence of documents (insertion order)
    nextOid,    \* the next ObjectId the driver generates
    now,        \* datetime.utcnow(), in ticks
    inflight,   \* a place_order call between its catalog lookup and its insert
    call,       \* the last request received
    resp        \* the response it got

vars == <<items, orders, nextOid, now, inflight, call, resp>>

----------------------------------------------------------------------------
(* Bounds of the model *)

MaxOid == 3
MaxTime == 1
MaxLines == 2
MaxQty == 2
TicksPerSecond == 2
SecondsPerDay == 2
MaxSample == 16

(* Program constants *)

TopLimit == 5
DayLimit == 14

Names == {"A", "B"}
Customers == {"ann"}
Statuses == {"pending", "confirmed", "completed", "cancelled"}

\* BakeryItem request bodies (price >= 0 is enforced by the schema)
ItemInputs ==
    { [name |-> "A", price |-> 3500, available |-> TRUE],
      [name |-> "B", price |-> 125,  available |-> TRUE],
      [name |-> "B", price |-> 2000, available |-> FALSE] }

Oids == 1..MaxOid

NoId == <<"none", 0>>

\* the id strings a client may send
IdStrs == ({"hex", "HEX"} \X Oids) \cup ({"bad"} \X {1, 2})

----------------------------------------------------------------------------
(* bson.ObjectId *)

\* ObjectId(s) raises unless s is 24 hex digits, in either case
IsValidOid(s) == s[1] \in {"hex", "HEX"}

\* ObjectId(s): the parsed key; both cases of the same digits give the same key
ObjectId(s) == s[2]

\* str(oid): always the lowercase form
Str(oid) == <<"hex", oid>>

----------------------------------------------------------------------------
(* Arithmetic *)

RECURSIVE SumSeq(_)
SumSeq(s) == IF s = <<>> THEN 0 ELSE Head(s) + SumSeq(Tail(s))

\* round(x, 2) on an amount in mils: to the nearest 10 mils, ties to even
Round2(m) ==
    LET q == m \div 10
        r == m % 10
    IN  IF r < 5 THEN 10 * q
        ELSE IF r > 5 THEN 10 * (q + 1)
        ELSE IF q % 2 = 0 THEN 10 * q ELSE 10 * (q + 1)

\* strftime('%Y%m%d%H%M%S'): the second of a tick
SecondOf(t) == t \div TicksPerSecond

\* $dateToString '%Y-%m-%d': the day of a tick
DateOf(t) == SecondOf(t) \div SecondsPerDay

\* (mutant) an order number that keeps the whole timestamp
OrderNumberExact(t) == <<"ORD", t>>

\* line 151: 'ORD-' + utcnow().strftime('%Y%m%d%H%M%S')
OrderNumber(t) == <<"ORD", SecondOf(t)>>

----------------------------------------------------------------------------
(* to_serializable *)

to_serializable(doc) ==
    [id |-> Str(doc._id), items |-> doc.items, customer |-> doc.customer,
     status |-> doc.status, total_amount |-> doc.total_amount,
     order_number |-> doc.order_number,
     created_at |-> doc.created_at, updated_at |-> doc.updated_at]

NoBody == <<>>

Response(status, msg, id, body) ==
    [status |-> status, detail |-> <<msg, id>>, body |-> body]

\* what a handler hands back: the database after it, its response, and how
\* many ObjectIds the driver generated for it
Result(db, new, r) == [db |-> db, new |-> new, resp |-> r]

----------------------------------------------------------------------------
(* Requests *)

Lines == [item_id : IdStrs, quantity : 1..MaxQty]

\* CreateOrderRequest: items is any list (the empty list included)
PayloadsUpTo(n) ==
    [items : UNION {[1..k -> Lines] : k \in 0..n}, customer : Customers]

Payloads == PayloadsUpTo(MaxLines)

----------------------------------------------------------------------------
(* Persistence collaborator (pymongo collections, database.create_document) *)

\* find_one({"_id": oid}) on the order collection
FindOne(os, oid) == os[CHOOSE i \in 1..Len(os) : os[i]._id = oid]

\* the documents update_one({"_id": oid}, ...) matches
Matches(os, oid) == {i \in 1..Len(os) : os[i]._id = oid}

\* create_document: insert with a fresh _id and the creation timestamps
create_document(data, oid, t) ==
    [_id |-> oid, items |-> data.items, customer |-> data.customer,
     status |-> data.status, total_amount |-> data.total_amount,
     order_number |-> data.order_number, created_at |-> t, updated_at |-> t]

----------------------------------------------------------------------------
(* Catalog management, lines 80-114 *)

CreateItem(db, oid, item) ==
    Result([db EXCEPT !.items = (oid :> item) @@ db.items], 1,
           Response(201, "", Str(oid), NoBody))

\* (mutant) an update that also refreshes the lines of the placed orders
UpdateItemCascade(db, item_id, item) ==
    IF ~IsValidOid(item_id)
    THEN Result(db, 0, Response(400, "Invalid item id", NoId, NoBody))
    ELSE IF ObjectId(item_id) \notin DOMAIN db.items
    THEN Result(db, 0, Response(404, "Item not found", NoId, NoBody))
    ELSE
    LET refresh(l) ==
            IF ObjectId(l.item_id) = ObjectId(item_id)
            THEN [l EXCEPT !.name = item.name, !.unit_price = item.price,
                           !.subtotal = item.price * l.quantity]
            ELSE l
        os == [i \in 1..Len(db.orders) |->
                 [db.orders[i] EXCEPT !.items =
                     [j \in 1..Len(db.orders[i].items) |->
                         refresh(db.orders[i].items[j])]]]
    IN  Result([db EXCEPT !.items[ObjectId(item_id)] = item, !.orders = os], 0,
               Response(200, "", Str(ObjectId(item_id)), NoBody))

UpdateItem(db, item_id, item) ==
    IF ~IsValidOid(item_id)
    THEN Result(db, 0, Response(400, "Invalid item id", NoId, NoBody))
    ELSE IF ObjectId(item_id) \notin DOMAIN db.items
    THEN Result(db, 0, Response(404, "Item not found", NoId, NoBody))
    ELSE Result([db EXCEPT !.items[ObjectId(item_id)] = item], 0,
                Response(200, "", Str(ObjectId(item_id)), NoBody))

DeleteItem(db, item_id) ==
    IF ~IsValidOid(item_id)
    THEN Result(db, 0, Response(400, "Invalid item id", NoId, NoBody))
    ELSE IF ObjectId(item_id) \notin DOMAIN db.items
    THEN Result(db, 0, Response(404, "Item not found", NoId, NoBody))
    ELSE Result([db EXCEPT !.items =
                    [o \in DOMAIN db.items \ {ObjectId(item_id)} |-> db.items[o]]],
                0, Response(204, "", NoId, NoBody))

----------------------------------------------------------------------------
(* place_order, lines 119-162 *)

\* lines 124-129: the first line whose id ObjectId() rejects, 0 if none
FirstInvalid(ls) ==
    LET bad == {i \in 1..Len(ls) : ~IsValidOid(ls[i].item_id)}
    IN  IF bad = {} THEN 0 ELSE CHOOSE i \in bad : \A j \in bad : i <= j

\* (mutant) a lookup that leaves out the availability filter
FindMenuDocsAny(cat, oids) == DOMAIN cat \cap oids

\* line 131: find({"_id": {"$in": item_ids}, "available": True})
FindMenuDocs(cat, oids) == {o \in DOMAIN cat \cap oids : cat[o].available}

\* line 132: {str(doc["_id"]): doc for doc in menu_docs}
MenuById(cat, found) == [s \in {Str(o) : o \in found} |-> cat[ObjectId(s)]]

\* lines 136-139: the first line menu_by_id.get(it.item_id) misses, 0 if none
FirstUnresolved(ls, menu_by_id) ==
    LET miss == {i \in 1..Len(ls) : ls[i].item_id \notin DOMAIN menu_by_id}
    IN  IF miss = {} THEN 0 ELSE CHOOSE i \in miss : \A j \in miss : i <= j

\* lines 140-149: one line snapshot
Snapshot(it, doc) ==
    [item_id |-> it.item_id, name |-> doc.name, unit_price |-> doc.price,
     quantity |-> it.quantity, subtotal |-> doc.price * it.quantity]

OrderItems(ls, menu_by_id) ==
    [i \in 1..Len(ls) |-> Snapshot(ls[i], menu_by_id[ls[i].item_id])]

\* lines 135, 142, 156: total accumulates the subtotals and is rounded once
TotalAmount(order_items) ==
    Round2(SumSeq([i \in 1..Len(order_items) |-> order_items[i].subtotal]))

\* lines 151-158
OrderDoc(payload, order_items, t) ==
    [items |-> order_items, customer |-> payload.customer, status |-> "pending",
     total_amount |-> TotalAmount(order_items), order_number |-> OrderNumber(t)]

\* (mutant) a loop that skips the lines it cannot resolve
PrepareSkipping(cat, payload, t) ==
    LET ls == payload.items
        inv == FirstInvalid(ls)
    IN  IF inv # 0
        THEN [ok |-> FALSE,
              resp |-> Response(400, "Invalid item id", ls[inv].item_id, NoBody)]
        ELSE
        LET found == FindMenuDocs(cat, {ObjectId(ls[i].item_id) : i \in 1..Len(ls)})
            menu_by_id == MenuById(cat, found)
            kept == SelectSeq(ls, LAMBDA l : l.item_id \in DOMAIN menu_by_id)
        IN  [ok |-> TRUE,
             doc |-> OrderDoc(payload, OrderItems(kept, menu_by_id), t)]

\* lines 124-158: the error raised, or the document to insert
Prepare(cat, payload, t) ==
    LET ls == payload.items
        inv == FirstInvalid(ls)
    IN  IF inv # 0
        THEN [ok |-> FALSE,
              resp |-> Response(400, "Invalid item id", ls[inv].item_id, NoBody)]
        ELSE
        LET found == FindMenuDocs(cat, {ObjectId(ls[i].item_id) : i \in 1..Len(ls)})
            menu_by_id == MenuById(cat, found)
            miss == FirstUnresolved(ls, menu_by_id)
        IN  IF miss # 0
            THEN [ok |-> FALSE,
                  resp |-> Response(400, "Item not available",
                                    ls[miss].item_id, NoBody)]
            ELSE [ok |-> TRUE,
                  doc |-> OrderDoc(payload, OrderItems(ls, menu_by_id), t)]

\* lines 160-162: create_document, find_one, to_serializable
Insert(db, oid, t, doc) ==
    LET os == Append(db.orders, create_document(doc, oid, t))
    IN  Result([db EXCEPT !.orders = os], 1,
               Response(201, "", NoId, to_serializable(FindOne(os, oid))))

PlaceOrder(db, oid, t, payload) ==
    LET p == Prepare(db.items, payload, t)
    IN  IF p.ok THEN Insert(db, oid, t, p.doc) ELSE Result(db, 0, p.resp)

----------------------------------------------------------------------------
(* update_order_status, lines 181-192 *)

\* {"$set": {"status": ..., "updated_at": datetime.utcnow()}}
SetStatus(doc, status, t) == [doc EXCEPT !.status = status, !.updated_at = t]

\* (mutant) a transition table: completed and cancelled orders are final
UpdateOrderStatusGuarded(db, t, order_id, status) ==
    IF ~IsValidOid(order_id)
    THEN Result(db, 0, Response(400, "Invalid order id", NoId, NoBody))
    ELSE
    LET oid == ObjectId(order_id)
        m == Matches(db.orders, oid)
    IN  IF m = {}
        THEN Result(db, 0, Response(404, "Order not found", NoId, NoBody))
        ELSE
        LET i == CHOOSE k \in m : \A j \in m : k <= j
            os == [db.orders EXCEPT ![i] = SetStatus(@, status, t)]
        IN  IF db.orders[i].status \in {"completed", "cancelled"}
            THEN Result(db, 0, Response(409, "Order is final", NoId, NoBody))
            ELSE Result([db EXCEPT !.orders = os], 0,
                        Response(200, "", NoId, to_serializable(FindOne(os, oid))))

\* (mutant) update_one(..., upsert=True)
UpdateOrderStatusUpsert(db, t, order_id, status) ==
    IF ~IsValidOid(order_id)
    THEN Result(db, 0, Response(400, "Invalid order id", NoId, NoBody))
    ELSE
    LET oid == ObjectId(order_id)
        m == Matches(db.orders, oid)
        os == IF m = {}
              THEN Append(db.orders,
                          [_id |-> oid, items |-> <<>>, customer |-> "",
                           status |-> status, total_amount |-> 0,
                           order_number |-> <<"ORD", 0>>,
                           created_at |-> t, updated_at |-> t])
              ELSE [db.orders EXCEPT ![CHOOSE k \in m : \A j \in m : k <= j] =
                                       SetStatus(@, status, t)]
    IN  Result([db EXCEPT !.orders = os], 0,
               Response(200, "", NoId, to_serializable(FindOne(os, oid))))

UpdateOrderStatus(db, t, order_id, status) ==
    IF ~IsValidOid(order_id)
    THEN Result(db, 0, Response(400, "Invalid order id", NoId, NoBody))
    ELSE
    LET oid == ObjectId(order_id)
        m == Matches(db.orders, oid)
    IN  IF m = {}
        THEN Result(db, 0, Response(404, "Order not found", NoId, NoBody))
        ELSE
        LET i == CHOOSE k \in m : \A j \in m : k <= j
            os == [db.orders EXCEPT ![i] = SetStatus(@, status, t)]
        IN  Result([db EXCEPT !.orders = os], 0,
                   Response(200, "", NoId, to_serializable(FindOne(os, oid))))

----------------------------------------------------------------------------
(* analytics, lines 197-230 *)

\* the first n elements of a cursor: {"$limit": n}
Limit(s, n) == SubSeq(s, 1, IF Len(s) < n THEN Len(s) ELSE n)

\* (mutant) revenue of the orders that were not cancelled
TotalRevenueKept(os) ==
    SumSeq([i \in 1..Len(os) |->
              IF os[i].status = "cancelled" THEN 0 ELSE os[i].total_amount])

\* line 203: sum(o.get("total_amount", 0.0) for o in db["order"].find({}))
TotalRevenue(os) == SumSeq([i \in 1..Len(os) |-> os[i].total_amount])

\* lines 207-208: $addFields date, $group by date
GroupByDay(os) ==
    { [date |-> d,
       orders |-> Cardinality({i \in 1..Len(os) : DateOf(os[i].created_at) = d}),
       revenue |-> SumSeq([i \in 1..Len(os) |->
                    IF DateOf(os[i].created_at) = d THEN os[i].total_amount ELSE 0])]
      : d \in {DateOf(os[i].created_at) : i \in 1..Len(os)} }

\* line 209: {"$sort": {"_id": 1}}; the group keys are distinct
RECURSIVE SortByDate(_)
SortByDate(G) ==
    IF G = {} THEN <<>>
    ELSE LET g == CHOOSE x \in G : \A y \in G : x.date <= y.date
         IN  <<g>> \o SortByDate(G \ {g})

\* (mutant) the 14 most recent days, as the comment of line 205 has it
ByDayRecent(os) ==
    LET s == SortByDate(GroupByDay(os))
    IN  IF Len(s) <= DayLimit THEN s ELSE SubSeq(s, Len(s) - DayLimit + 1, Len(s))

\* lines 206-213
ByDay(os) == Limit(SortByDate(GroupByDay(os)), DayLimit)

\* line 217: {"$unwind": "$items"}: the (order, line) positions
Unwind(os) == {<<i, j>> \in (1..Len(os)) \X (1..MaxLines + 1) : j <= Len(os[i].items)}

RECURSIVE SumOver(_, _, _)
\* the sum of a field of the unwound lines in U
SumOver(os, U, field) ==
    IF U = {} THEN 0
    ELSE LET u == CHOOSE x \in U : TRUE
         IN  os[u[1]].items[u[2]][field] + SumOver(os, U \ {u}, field)

\* line 218: $group by items.name
GroupByName(os) ==
    LET U == Unwind(os)
    IN  { [name |-> n,
           quantity |-> SumOver(os, {u \in U : os[u[1]].items[u[2]].name = n}, "quantity"),
           revenue |-> SumOver(os, {u \in U : os[u[1]].items[u[2]].name = n}, "subtotal")]
          : n \in {os[u[1]].items[u[2]].name : u \in U} }

\* line 219: {"$sort": {"quantity": -1}}; groups of equal quantity come in
\* any order, so this is the set of the orders the sort may produce
RECURSIVE SortsByQuantity(_)
SortsByQuantity(G) ==
    IF G = {} THEN {<<>>}
    ELSE UNION { {<<g>> \o t : t \in SortsByQuantity(G \ {g})}
                 : g \in {x \in G : \A y \in G : y.quantity <= x.quantity} }

\* lines 216-223: the results the pipeline may return
TopItems(os) == {Limit(s, TopLimit) : s \in SortsByQuantity(GroupByName(os))}

\* lines 225-230
Summary(os, top) ==
    [total_orders |-> Len(os), total_revenue |-> Round2(TotalRevenue(os)),
     by_day |-> ByDay(os), top_items |-> top]

Analytics(db, top) == Result(db, 0, Response(200, "", NoId, Summary(db.orders, top)))

----------------------------------------------------------------------------
(* State machine *)

DB == [items |-> items, orders |-> orders]

Idle == [pc |-> "idle"]

Init ==
    /\ items = <<>>
    /\ orders = <<>>
    /\ nextOid = 1
    /\ now = 0
    /\ inflight = Idle
    /\ call = "none"
    /\ resp = Response(0, "", NoId, NoBody)

\* a handler's result becomes the next state
Handle(op, r) ==
    /\ r.new = 0 \/ nextOid <= MaxOid
    /\ items' = r.db.items
    /\ orders' = r.db.orders
    /\ nextOid' = nextOid + r.new
    /\ call' = op
    /\ resp' = r.resp
    /\ UNCHANGED <<now, inflight>>

\* the clock advances
Tick ==
    /\ now < MaxTime
    /\ now' = now + 1
    /\ UNCHANGED <<items, orders, nextOid, inflight, call, resp>>

\* POST /api/items with a body the BakeryItem schema accepts
create_item(item) ==
    /\ item.price >= 0
    /\ Handle("create_item", CreateItem(DB, nextOid, item))

\* PUT /api/items/{item_id}
update_item(item_id, item) ==
    /\ item.price >= 0
    /\ Handle("update_item", UpdateItem(DB, item_id, item))

\* DELETE /api/items/{item_id}
delete_item(item_id) ==
    /\ item_id \in IdStrs
    /\ Handle("delete_item", DeleteItem(DB, item_id))

\* POST /api/orders: a place_order call that nothing interleaves with
place_order(payload) ==
    /\ inflight.pc = "idle"
    /\ Handle("place_order", PlaceOrder(DB, nextOid, now, payload))

\* PATCH /api/orders/{order_id}/status with a status UpdateStatusRequest accepts
update_order_status(order_id, status) ==
    /\ status \in Statuses
    /\ Handle("update_order_status", UpdateOrderStatus(DB, now, order_id, status))

\* GET /api/analytics
analytics == \E top \in TopItems(orders) : Handle("analytics", Analytics(DB, top))

\* place_order up to its catalog lookup (lines 124-158); other requests may
\* be served before it goes on
place_order_lookup(payload) ==
    /\ inflight.pc = "idle"
    /\ LET p == Prepare(items, payload, now)
       IN  IF p.ok
           THEN /\ inflight' = [pc |-> "found", doc |-> p.doc, seen |-> items]
                /\ UNCHANGED <<call, resp>>
           ELSE /\ call' = "place_order"
                /\ resp' = p.resp
                /\ UNCHANGED inflight
    /\ UNCHANGED <<items, orders, nextOid, now>>

\* place_order from its insert on (lines 160-162)
place_order_insert ==
    /\ inflight.pc = "found"
    /\ nextOid <= MaxOid
    /\ LET r == Insert(DB, nextOid, now, inflight.doc)
       IN  /\ orders' = r.db.orders
           /\ nextOid' = nextOid + r.new
           /\ resp' = r.resp
    /\ call' = "place_order"
    /\ inflight' = Idle
    /\ UNCHANGED <<items, now>>

Catalog ==
    \/ \E item \in ItemInputs : create_item(item)
    \/ \E s \in IdStrs, item \in ItemInputs : update_item(s, item)
    \/ \E s \in IdStrs : delete_item(s)

\* order placement against a changing catalog
NextPlace ==
    \/ Catalog
    \/ \E payload \in Payloads : place_order(payload)

SpecPlace == Init /\ [][NextPlace]_vars

\* the payloads whose ids are all in canonical form
CanonPayloads(n) ==
    {p \in PayloadsUpTo(n) : \A i \in 1..Len(p.items) : p.items[i].item_id[1] = "hex"}

\* catalog requests of clients that send canonical ids
CanonCatalog ==
    \/ \E item \in ItemInputs : create_item(item)
    \/ \E o \in Oids, item \in ItemInputs : update_item(Str(o), item)
    \/ \E o \in Oids : delete_item(Str(o))

\* the life of orders: short orders placed with canonical ids, status
\* changes with any id string, analytics, time
Next ==
    \/ Tick
    \/ CanonCatalog
    \/ \E payload \in CanonPayloads(1) : place_order(payload)
    \/ \E s \in IdStrs, st \in Statuses : update_order_status(s, st)
    \/ analytics

Spec == Init /\ [][Next]_vars

\* a place_order call interleaved with catalog requests (clients that send
\* canonical ids)
NextConc ==
    \/ CanonCatalog
    \/ \E payload \in CanonPayloads(MaxLines) : place_order_lookup(payload)
    \/ place_order_insert

SpecConc == Init /\ [][NextConc]_vars

----------------------------------------------------------------------------
(* Order stores for the analytics: the store after n placements of one or
   two lines each, spread over the days, of an item that was renamed
   between the placements *)

NameSeq == <<"A", "B", "C", "D", "E", "F">>

TicksPerDay == TicksPerSecond * SecondsPerDay

\* order i: the first dup + 1 orders fall on day 0, the later ones on one
\* day each; the item's name cycles through the first w names
SampleOrder(i, dup, w, q) ==
    LET day == IF i <= dup + 1 THEN 0 ELSE i - dup - 1
        at == day * TicksPerDay + (IF i <= dup + 1 THEN (i - 1) % TicksPerDay ELSE 0)
        l1 == Snapshot([item_id |-> Str(1), quantity |-> 1 + ((i * q) % MaxQty)],
                       [name |-> NameSeq[((i - 1) % w) + 1], price |-> 125])
        l2 == Snapshot([item_id |-> Str(1), quantity |-> 1],
                       [name |-> NameSeq[(i % w) + 1], price |-> 3500])
        ls == IF i % 2 = 0 THEN <<l1, l2>> ELSE <<l1>>
    IN  create_document(OrderDoc([customer |-> "ann"], ls, at), i, at)

SampleStores ==
    { [i \in 1..n |-> SampleOrder(i, dup, w, q)]
      : n \in 0..MaxSample, dup \in 0..2, w \in 1..Len(NameSeq), q \in 0..2 }

InitAnalytics ==
    /\ items = <<>>
    /\ orders \in SampleStores
    /\ nextOid = Len(orders) + 1
    /\ now = 0
    /\ inflight = Idle
    /\ call = "none"
    /\ resp = Response(0, "", NoId, NoBody)

SpecAnalytics == InitAnalytics /\ [][analytics]_vars

----------------------------------------------------------------------------
(* Vocabulary of the claims *)

\* s is a well-formed key that identifies an available catalog item
Identifies(cat, s) ==
    /\ IsValidOid(s)
    /\ ObjectId(s) \in DOMAIN cat
    /\ cat[ObjectId(s)].available

\* the catalog's price of every line times its quantity, summed
RECURSIVE CatalogSum(_, _)
CatalogSum(cat, ls) ==
    IF ls = <<>> THEN 0
    ELSE cat[ObjectId(Head(ls).item_id)].price * Head(ls).quantity
         + CatalogSum(cat, Tail(ls))

\* the lines of a request that are malformed, unknown or unavailable
Offending(cat, ls) == {i \in 1..Len(ls) : ~Identifies(cat, ls[i].item_id)}

Malformed(ls) == {i \in 1..Len(ls) : ls[i].item_id[1] = "bad"}

Least(S) == CHOOSE i \in S : \A j \in S : i <= j

----------------------------------------------------------------------------
(* C1 *)

\* C1: a place_order request whose lines all name available catalog items
\* by well-formed ids succeeds and persists exactly one new pending order:
\* one snapshot per line in request order, name and unit price as in the
\* catalog, subtotal = unit price x quantity, total_amount = the rounded sum
\* of catalog price x quantity.
C1_AvailableRequestSucceeds ==
    \A p \in Payloads :
        Offending(items, p.items) = {} =>
            LET r == PlaceOrder(DB, nextOid, now, p)
                n == Len(orders) + 1
            IN  /\ r.resp.status = 201
                /\ r.db.items = items
                /\ Len(r.db.orders) = n
                /\ SubSeq(r.db.orders, 1, n - 1) = orders
                /\ r.db.orders[n].status = "pending"
                /\ Len(r.db.orders[n].items) = Len(p.items)
                /\ \A i \in 1..Len(p.items) :
                      LET l == r.db.orders[n].items[i]
                          it == items[ObjectId(p.items[i].item_id)]
                      IN  /\ l.item_id = p.items[i].item_id
                          /\ l.quantity = p.items[i].quantity
                          /\ l.name = it.name
                          /\ l.unit_price = it.price
                          /\ l.subtotal = it.price * p.items[i].quantity
                /\ r.db.orders[n].total_amount = Round2(CatalogSum(items, p.items))

----------------------------------------------------------------------------
(* C2 *)

\* C2: place_order is all-or-nothing: a request with a malformed, unknown or
\* unavailable id on any line gets a 400 (invalid id / item not available)
\* and leaves the order store and the catalog as they were.
C2_AllOrNothing ==
    \A p \in Payloads :
        Offending(items, p.items) # {} =>
            LET r == PlaceOrder(DB, nextOid, now, p)
            IN  /\ r.resp.status = 400
                /\ r.resp.detail[1] \in {"Invalid item id", "Item not available"}
                /\ r.db = DB
                /\ r.new = 0

\* a request naming an unavailable item of a catalog that also holds an
\* available one was refused, and an order placed before is still alone
C2_Witness ==
    /\ call = "place_order"
    /\ resp.status = 400
    /\ resp.detail[1] = "Item not available"
    /\ ObjectId(resp.detail[2]) \in DOMAIN items
    /\ ~items[ObjectId(resp.detail[2])].available
    /\ \E o \in DOMAIN items : items[o].available
    /\ Len(orders) = 1

----------------------------------------------------------------------------
(* C9 *)

\* C9: in place_order every id is checked for well-formedness before any
\* catalog lookup: a request with a malformed id anywhere fails naming the
\* first malformed id; item-not-available is returned only when all ids are
\* well-formed and names the first line that names no available item.
C9_ValidationOrder ==
    \A p \in Payloads :
        LET r == PlaceOrder(DB, nextOid, now, p)
            ls == p.items
        IN  /\ Malformed(ls) # {} =>
                /\ r.resp.status = 400
                /\ r.resp.detail = <<"Invalid item id", ls[Least(Malformed(ls))].item_id>>
            /\ (r.resp.status = 400 /\ r.resp.detail[1] = "Item not available") =>
                /\ Malformed(ls) = {}
                /\ Offending(items, ls) # {}
                /\ r.resp.detail[2] = ls[Least(Offending(items, ls))].item_id

----------------------------------------------------------------------------
(* C3 *)

\* C3: order line snapshots are immutable: whatever request is served, every
\* persisted order stays persisted with the lines and the total_amount it had.
C3_SnapshotsImmutable ==
    [][\A i \in 1..Len(orders) :
          /\ i <= Len(orders')
          /\ orders'[i]._id = orders[i]._id
          /\ orders'[i].items = orders[i].items
          /\ orders'[i].total_amount = orders[i].total_amount]_vars

\* two orders of the same item carry different names and prices, the item
\* has since been deleted, and one of the orders has changed status
C3_Witness ==
    \E i, j \in 1..Len(orders) :
        /\ i < j
        /\ Len(orders[i].items) = 1 /\ Len(orders[j].items) = 1
        /\ orders[i].items[1].item_id = orders[j].items[1].item_id
        /\ orders[i].items[1].unit_price # orders[j].items[1].unit_price
        /\ orders[i].items[1].name # orders[j].items[1].name
        /\ ObjectId(orders[i].items[1].item_id) \notin DOMAIN items
        /\ orders[i].status = "completed"
        /\ orders[i].total_amount = Round2(orders[i].items[1].subtotal)

----------------------------------------------------------------------------
(* C4 *)

\* the position of the order a well-formed id names, 0 if there is none
OrderAt(os, s) ==
    IF \E i \in 1..Len(os) : os[i]._id = ObjectId(s)
    THEN CHOOSE i \in 1..Len(os) : os[i]._id = ObjectId(s)
    ELSE 0

\* C4: update_order_status on an existing order succeeds for every target
\* status whatever the current status is, leaves the order with the target
\* status, and changes only that order's status and updated_at: its other
\* fields, the other orders and the catalog are unchanged.
C4_AnyTransition ==
    \A s \in IdStrs, st \in Statuses :
        (IsValidOid(s) /\ OrderAt(orders, s) # 0) =>
            LET r == UpdateOrderStatus(DB, now, s, st)
                i == OrderAt(orders, s)
            IN  /\ r.resp.status = 200
                /\ r.resp.body.status = st
                /\ r.new = 0
                /\ r.db.items = items
                /\ Len(r.db.orders) = Len(orders)
                /\ \A j \in 1..Len(orders) : j # i => r.db.orders[j] = orders[j]
                /\ r.db.orders[i].status = st
                /\ r.db.orders[i].updated_at = now
                /\ r.db.orders[i] =
                     [orders[i] EXCEPT !.status = st, !.updated_at = now]

\* a status change has just succeeded on an order that had been updated
\* before, while another order is completed and a third status is in use
C4_Witness ==
    /\ call = "update_order_status"
    /\ resp.status = 200
    /\ resp.body.updated_at > resp.body.created_at
    /\ \E i, j \in 1..Len(orders) :
          /\ orders[i].status = "completed"
          /\ orders[j].status = "cancelled"
          /\ Len(orders[i].items) = 1

----------------------------------------------------------------------------
(* C5 *)

\* C5: update_order_status with a well-formed id that matches no order
\* answers 404 and creates nothing; with a malformed id it answers 400; in
\* both cases the order store and the catalog are unchanged.
C5_NoUpsert ==
    \A s \in IdStrs, st \in Statuses :
        LET r == UpdateOrderStatus(DB, now, s, st)
        IN  /\ (IsValidOid(s) /\ OrderAt(orders, s) = 0) =>
                /\ r.resp.status = 404
                /\ r.db = DB
                /\ r.new = 0
            /\ ~IsValidOid(s) =>
                /\ r.resp.status = 400
                /\ r.db = DB
                /\ r.new = 0

\* a status change was refused with 404 while orders and items exist
C5_Witness ==
    /\ call = "update_order_status"
    /\ resp.status = 404
    /\ Len(orders) >= 1
    /\ DOMAIN items # {}

----------------------------------------------------------------------------
(* C6 *)

RECURSIVE StoredTotal(_, _)
\* the total_amount of the first n persisted orders, whatever their status
StoredTotal(os, n) == IF n = 0 THEN 0 ELSE os[n].total_amount + StoredTotal(os, n - 1)

\* C6: in every reachable state analytics returns as total_revenue the sum
\* of total_amount over all persisted orders (cancelled ones included),
\* rounded to 2 decimals, and changes neither the orders nor the catalog.
C6_TotalRevenue ==
    \A top \in TopItems(orders) :
        LET r == Analytics(DB, top)
        IN  /\ r.resp.status = 200
            /\ r.resp.body.total_revenue = Round2(StoredTotal(orders, Len(orders)))
            /\ r.resp.body.total_orders = Len(orders)
            /\ r.db = DB
            /\ r.new = 0

\* analytics has answered over two orders, one of them cancelled, and the
\* revenue counts both
C6_Witness ==
    /\ call = "analytics"
    /\ Len(orders) = 2
    /\ orders[1].status = "cancelled"
    /\ orders[1].total_amount > 0
    /\ orders[2].total_amount > 0
    /\ resp.body.total_revenue = orders[1].total_amount + orders[2].total_amount

----------------------------------------------------------------------------
(* C8 *)

\* C8: the order number is made of the second of placement only, so two
\* orders placed in the same second carry the same order number, while the
\* identifiers of any two persisted orders differ.  (Under Spec a placement
\* is one step, so created_at is the tick of placement.)
C8_OrderNumbers ==
    \A i, j \in 1..Len(orders) :
        /\ orders[i].order_number = <<"ORD", orders[i].created_at \div TicksPerSecond>>
        /\ (orders[i].created_at \div TicksPerSecond
              = orders[j].created_at \div TicksPerSecond)
             => orders[i].order_number = orders[j].order_number
        /\ i # j => orders[i]._id # orders[j]._id

\* two orders placed at different ticks of one second share their number
C8_Witness ==
    \E i, j \in 1..Len(orders) :
        /\ orders[i].created_at < orders[j].created_at
        /\ orders[i].order_number = orders[j].order_number
        /\ orders[i]._id # orders[j]._id

----------------------------------------------------------------------------
(* C7 *)

\* the names on the lines of the persisted orders
LineNames(os) == {os[i].items[j].name : <<i, j>> \in Unwind(os)}

\* the quantity ordered under a name, over all lines of all orders
QuantityOf(os, n) ==
    SumSeq([i \in 1..Len(os) |->
              SumSeq([j \in 1..Len(os[i].items) |->
                        IF os[i].items[j].name = n THEN os[i].items[j].quantity
                        ELSE 0])])

\* the days on which the persisted orders were created
Dates(os) == {(os[i].created_at \div TicksPerSecond) \div SecondsPerDay : i \in 1..Len(os)}

Smaller(a, b) == IF a < b THEN a ELSE b

----------------------------------------------------------------------------
(* C10 *)

\* C10: whatever catalog requests are served between the lookup of a
\* place_order call and its insert, every line of the order inserted carries
\* the name and the price its item had in the catalog as it was at the
\* lookup, where the item was available.
C10_SingleLookup ==
    [][(inflight.pc = "found" /\ inflight'.pc = "idle") =>
          /\ Len(orders') = Len(orders) + 1
          /\ LET o == orders'[Len(orders')]
             IN  \A k \in 1..Len(o.items) :
                    LET oid == ObjectId(o.items[k].item_id)
                    IN  /\ oid \in DOMAIN inflight.seen
                        /\ inflight.seen[oid].available
                        /\ o.items[k].name = inflight.seen[oid].name
                        /\ o.items[k].unit_price = inflight.seen[oid].price
                        /\ o.items[k].subtotal =
                             inflight.seen[oid].price * o.items[k].quantity]_vars

\* an order of two lines of one item has just been inserted although the
\* item changed name and price and became unavailable after the lookup
C10_Witness ==
    /\ call = "place_order"
    /\ resp.status = 201
    /\ LET o == orders[Len(orders)]
       IN  /\ Len(o.items) = 2
           /\ o.items[1].item_id = o.items[2].item_id
           /\ o.items[1].unit_price = o.items[2].unit_price
           /\ ObjectId(o.items[1].item_id) \in DOMAIN items
           /\ ~items[ObjectId(o.items[1].item_id)].available
           /\ items[ObjectId(o.items[1].item_id)].price # o.items[1].unit_price

====
